---- MODULE Spec2Model ----
(***************************************************************************)
(* Simmetric: the SimagicPedalTelemetry component.                         *)
(*                                                                         *)
(* The component's React state, the closures its two interval effects      *)
(* capture, and its three handlers: the sample trigger (pollGamepads), the *)
(* history trigger (the history interval callback) and the manual refresh. *)
(* A handler is one action: the callback, the re-render it causes and the  *)
(* effects that re-run because one of their dependencies changed.          *)
(*                                                                         *)
(* Time.  now is Date.now() in ms since the mount.  The poll interval fires *)
(* no earlier than PollMs after the effect created it or after it fired    *)
(* last, so a sample reads a Date.now() later than every lastUpdate set    *)
(* before it; the gaps explored are around half the timeout.  A history    *)
(* append reads no clock and takes no time.                                *)
(* Under Spec, SpecTime and SpecHist a live interval may fire at any time; *)
(* under SpecLive both intervals fire exactly when they are due, 16 ms     *)
(* after they were created or fired last.                                  *)
(*                                                                         *)
(* Timers and canvas.  timers holds the live intervals, the two refs the   *)
(* handles the effects stored; the teardown and the StrictMode remount run *)
(* the effects' cleanups.  drawn is what the redraw effect issued to the   *)
(* canvas in the latest step; the canvas exists only while the status is   *)
(* 'connected'.                                                            *)
(*                                                                         *)
(* Numbers.  A raw axis value is the rational k / AxisDen, kept as its     *)
(* numerator k.  Every percentage and the steering angle are rationals     *)
(* kept as numerators over Den = 2 * AxisDen, so that                      *)
(* ((a + 1) / 2) * 100, |a| * 100 and a * 450 are exact.                   *)
(***************************************************************************)
EXTENDS Integers, Sequences, FiniteSets, TLC

\* ---------------------------------------------------------------- bounds
\* Raw axis values are the multiples of 1/AxisDen named in AxisVals.
AxisDen == 2
\* The sample clock stops at MaxTime ms (Spec).
MaxTime == 3000
\* History appends taken under Spec and SpecTime.
MaxAppends == 2
\* The sample clock stops at MaxClock ms (SpecTime).
MaxClock == 3001
\* History appends taken under SpecHist (more than maxHistory).
MaxHistAppends == 202
\* The sample clock stops at MaxHistTime ms (SpecHist).
MaxHistTime == 2000
\* The sample clock stops at MaxLiveTime ms (SpecLive).
MaxLiveTime == 112

\* ------------------------------------------------------ program constants
maxHistory == 200
PollMs == 16
TimeoutMs == 2000
LockDeg == 450
\* <canvas width={1200} height={300}>
width == 1200
height == 300

Den == 2 * AxisDen
AxisVals == {-AxisDen, 0, 1, AxisDen}

\* p percent as a numerator over Den
Pct(p) == p * Den

Abs(x) == IF x < 0 THEN -x ELSE x
Max(a, b) == IF a >= b THEN a ELSE b

\* ------------------------------------------------------------ identifiers
\* A string is the sequence of its characters.
UpperChars == <<"A","B","C","D","E","F","G","H","I","J","K","L","M",
                "N","O","P","Q","R","S","T","U","V","W","X","Y","Z">>
LowerChars == <<"a","b","c","d","e","f","g","h","i","j","k","l","m",
                "n","o","p","q","r","s","t","u","v","w","x","y","z">>

LowerChar(c) ==
    IF \E i \in 1..26 : UpperChars[i] = c
    THEN LowerChars[CHOOSE i \in 1..26 : UpperChars[i] = c]
    ELSE c

toLowerCase(s) == [i \in 1..Len(s) |-> LowerChar(s[i])]

includes(s, tok) ==
    \E i \in 0..(Len(s) - Len(tok)) : SubSeq(s, i + 1, i + Len(tok)) = tok

TokSimagic == <<"s","i","m","a","g","i","c">>
TokP1000 == <<"p","1","0","0","0">>
TokP2000 == <<"p","2","0","0","0">>

IdSimagicP2000 == <<"S","i","m","a","g","i","c"," ","P","2","0","0","0">>
IdUpperP1000 == <<"S","I","M","-","P","1","0","0","0">>
IdGeneric == <<"G","e","n","e","r","i","c"," ","U","S","B"," ",
               "G","a","m","e","p","a","d">>
IdMouse == <<"M","o","u","s","e">>

\* ------------------------------------------------------------------ slots
\* One slot of navigator.getGamepads(): null, or a gamepad with id and axes.
Null == [null |-> TRUE, id |-> <<>>, axes |-> <<>>]
Pad(id, axes) == [null |-> FALSE, id |-> id, axes |-> axes]

\* the identifiers the inputs use
Ids == {IdSimagicP2000, IdUpperP1000, IdGeneric, IdMouse}

\* gamepad.id.toLowerCase().includes('simagic') || ... 'p1000' || ... 'p2000'
IdMatchesCaseSensitive(id) ==
    \/ includes(id, TokSimagic)
    \/ includes(id, TokP1000)
    \/ includes(id, TokP2000)

IdMatches(id) ==
    \/ includes(toLowerCase(id), TokSimagic)
    \/ includes(toLowerCase(id), TokP1000)
    \/ includes(toLowerCase(id), TokP2000)

\* the identifiers of Ids that pass the test
MatchingIds == {id \in Ids : IdMatches(id)}

\* gamepad.axes.length >= 3
EnoughAxesFour(axes) == Len(axes) >= 4

EnoughAxes(axes) == Len(axes) >= 3

\* the match test of the enumeration loop
IsMatch(g) == ~g.null /\ (g.id \in MatchingIds \/ EnoughAxes(g.axes))

\* index of the slot the loop breaks at, 0 when it runs to the end
LastMatch(gps) ==
    IF \E i \in 1..Len(gps) : IsMatch(gps[i])
    THEN CHOOSE i \in 1..Len(gps) :
            IsMatch(gps[i]) /\ \A j \in (i + 1)..Len(gps) : ~IsMatch(gps[j])
    ELSE 0

FirstMatch(gps) ==
    IF \E i \in 1..Len(gps) : IsMatch(gps[i])
    THEN CHOOSE i \in 1..Len(gps) :
            IsMatch(gps[i]) /\ \A j \in 1..(i - 1) : ~IsMatch(gps[j])
    ELSE 0

\* gamepads.some(g => g !== null)
SomeNonNull(gps) == \E i \in 1..Len(gps) : ~gps[i].null

\* gamepads.find(g => g !== null)
FindNonNull(gps) ==
    gps[CHOOSE i \in 1..Len(gps) :
            ~gps[i].null /\ \A j \in 1..(i - 1) : gps[j].null]

\* axes[i] !== undefined ? axes[i] : dflt   (i is the JavaScript index)
AxisOrDefaultZero(axes, i, dflt) == IF i + 1 <= Len(axes) THEN axes[i + 1] ELSE 0

AxisOrDefault(axes, i, dflt) == IF i + 1 <= Len(axes) THEN axes[i + 1] ELSE dflt

\* axes[i] || alt : undefined and 0 are falsy
AxisOr(axes, i, alt) ==
    IF i + 1 <= Len(axes) /\ axes[i + 1] # 0 THEN axes[i + 1] ELSE alt

\* -------------------------------------------------------------- normalizer
\* newThrottle / newBrake: ((axis + 1) / 2) * 100 unless axis and the
\* captured percent are both 0
NewPedalNoDebounce(axis, captured) == (axis + AxisDen) * 100

NewPedal(axis, captured) ==
    IF axis = 0 /\ captured = 0 THEN 0 ELSE (axis + AxisDen) * 100

\* Math.abs(steeringAxis) * 100
NewSteeringSigned(axis) == axis * 200

NewSteering(axis) == Abs(axis) * 200

\* steeringAxis * 450
RawSteeringAngle(axis) == axis * 2 * LockDeg

\* ((1 - axis) / 2) * 100
GenericPctNoHalf(axis) == (AxisDen - axis) * 200

GenericPct(axis) == (AxisDen - axis) * 100

\* ------------------------------------------------------------------ state
VARIABLES
    throttle, brake, steering, steeringAngle, \* useState: the NormalizedSignal
    history,            \* useState: the HistoryBuffer
    connectionStatus,   \* useState: 'polling' | 'connected' | ...
    lastUpdate,         \* useState: the last-update timestamp (ms)
    sessionStats,       \* useState: startTime and the three peaks
    pollClosure,        \* throttle, brake, lastUpdate as pollGamepads captured them
    historyClosure,     \* throttle, brake, steering as the history callback captured them
    now,                \* Date.now() at the latest handler (ms since mount)
    mounted,            \* the component is mounted
    timers,             \* the live intervals: records [id, kind]
    pollInterval,       \* useRef: pollInterval.current, 0 for null
    historyInterval,    \* useRef: historyInterval.current, 0 for null
    historyArmed,       \* the history interval was created or fired at time
                        \* now: it is due next at now + PollMs
    drawn,              \* history variable: the canvas calls the redraw effect
                        \* issued in the latest step, <<>> when it issued none
    gamepads,           \* history variable: navigator.getGamepads() as the handler
                        \* that ran last read it (<<>> unless it was a sample)
    foundSimagic,       \* history variable: that sample's local foundSimagic
    lastOp,             \* history variable: the handler that ran last
    log,                \* history variable: every snapshot appended, in order
    lastMatch,          \* history variable: time of the latest matched sample, -1 if none
    prevMatch,          \* history variable: time of the matched sample before it, -1 if none
    maxThrottleSeen     \* history variable: largest throttle a sample stored

signal == <<throttle, brake, steering, steeringAngle>>
vars == <<throttle, brake, steering, steeringAngle, history, connectionStatus,
          lastUpdate, sessionStats, pollClosure, historyClosure, now, gamepads,
          foundSimagic, lastOp, log, lastMatch, prevMatch, maxThrottleSeen,
          mounted, timers, pollInterval, historyInterval, historyArmed,
          drawn>>

Init ==
    /\ throttle = 0
    /\ brake = 0
    /\ steering = 0
    /\ steeringAngle = 0
    /\ history = <<>>
    /\ connectionStatus = "polling"
    /\ lastUpdate = 0
    /\ sessionStats = [startTime |-> 0, peakThrottle |-> 0, peakBrake |-> 0,
                       peakSteering |-> 0]
    /\ pollClosure = [throttle |-> 0, brake |-> 0, lastUpdate |-> 0]
    /\ historyClosure = [throttle |-> 0, brake |-> 0, steering |-> 0]
    /\ now = 0
    /\ gamepads = <<>>
    /\ foundSimagic = FALSE
    /\ lastOp = "mount"
    /\ log = <<>>
    /\ lastMatch = -1
    /\ prevMatch = -1
    /\ maxThrottleSeen = 0
    /\ mounted = TRUE
    /\ timers = {[id |-> 1, kind |-> "poll"], [id |-> 2, kind |-> "history"]}
    /\ pollInterval = 1
    /\ historyInterval = 2
    /\ historyArmed = TRUE
    /\ drawn = <<>>

\* ----------------------------------------------------------------- timers
\* setInterval returns a handle no live interval has; handles are compared
\* for equality only, so the least free one stands for it
NewId(tms) ==
    CHOOSE n \in 1..(Cardinality(tms) + 1) :
        /\ \A tm \in tms : tm.id # n
        /\ \A m \in 1..(n - 1) : \E tm \in tms : tm.id = m

\* clearInterval(id)
ClearInterval(tms, id) == {tm \in tms : tm.id # id}

\* the cleanup of an interval effect: if (ref.current) clearInterval(ref.current)
CleanupKeepsInterval(tms, ref) == tms

Cleanup(tms, ref) == IF ref # 0 THEN ClearInterval(tms, ref) ELSE tms

\* setInterval(..., 16) for the history callback: is the interval, dt ms
\* later, one that was created at that time (the effect re-ran) or that was
\* created or fired less than 16 ms before
Armed(armed, dt, rerun) == rerun \/ (armed /\ dt < PollMs)

\* does an interval of this kind run
Live(tms, kind) == \E tm \in tms : tm.kind = kind

\* One commit of the two interval effects: React runs the cleanups of the
\* effects whose dependencies changed, then their bodies in declaration
\* order, each body storing the handle of its new interval in its ref.
CommitEffects(tms, pRef, hRef, rerunPoll, rerunHistory) ==
    LET t1 == IF rerunPoll THEN Cleanup(tms, pRef) ELSE tms
        t2 == IF rerunHistory THEN Cleanup(t1, hRef) ELSE t1
        pNew == IF rerunPoll THEN NewId(t2) ELSE pRef
        t3 == IF rerunPoll THEN t2 \cup {[id |-> pNew, kind |-> "poll"]} ELSE t2
        hNew == IF rerunHistory THEN NewId(t3) ELSE hRef
        t4 == IF rerunHistory THEN t3 \cup {[id |-> hNew, kind |-> "history"]}
              ELSE t3
    IN  [timers |-> t4, pollInterval |-> pNew, historyInterval |-> hNew]

\* ----------------------------------------------------------------- redraw
\* A canvas call: op, the fillStyle or strokeStyle in effect, the point (x, y)
\* with x in units of 1/XDen px and y in units of 1/YDen px, and the 1-based
\* index of the buffer entry read for it (0 when none was read).
XDen == maxHistory - 1
YDen == 100 * Den

CanvasCall(op, style, x, y, i) ==
    [op |-> op, style |-> style, x |-> x, y |-> y, i |-> i]

\* ctx.fillStyle = '#0a0a0a'; ctx.fillRect(0, 0, width, height)
Background == <<CanvasCall("fillRect", "#0a0a0a", width * XDen, height * YDen, 0)>>

\* one gridline: y = (height / 4) * i
GridLine(i) ==
    <<CanvasCall("beginPath", "#2a2a2a", 0, 0, 0),
      CanvasCall("moveTo", "#2a2a2a", 0, height * i * 25 * Den, 0),
      CanvasCall("lineTo", "#2a2a2a", width * XDen, height * i * 25 * Den, 0),
      CanvasCall("stroke", "#2a2a2a", 0, 0, 0)>>

\* for (let i = 0; i <= 4; i++)
Grid == GridLine(0) \o GridLine(1) \o GridLine(2) \o GridLine(3) \o GridLine(4)

\* drawAxis(color, dataKey): x = i * xStep, y = height - (point[dataKey] / 100) * height
drawAxisNotFlipped(hist, color, dataKey) ==
    <<CanvasCall("beginPath", color, 0, 0, 0)>>
        \o [i \in 1..Len(hist) |->
                CanvasCall(IF i = 1 THEN "moveTo" ELSE "lineTo", color,
                           (i - 1) * width, hist[i][dataKey] * height, i)]
        \o <<CanvasCall("stroke", color, 0, 0, 0)>>

drawAxis(hist, color, dataKey) ==
    <<CanvasCall("beginPath", color, 0, 0, 0)>>
        \o [i \in 1..Len(hist) |->
                CanvasCall(IF i = 1 THEN "moveTo" ELSE "lineTo", color,
                           (i - 1) * width,
                           height * 100 * Den - hist[i][dataKey] * height, i)]
        \o <<CanvasCall("stroke", color, 0, 0, 0)>>

\* the redraw effect; canvas is whether canvasRef.current is an element
RedrawBrakeFirst(hist, canvas) ==
    IF ~canvas THEN <<>>
    ELSE IF Len(hist) < 2 THEN Background \o Grid
    ELSE Background \o Grid
            \o drawAxis(hist, "#ef4444", "brake")
            \o drawAxis(hist, "#00c73cff", "throttle")
            \o drawAxis(hist, "#3b82f6", "steering")

RedrawFromOne(hist, canvas) ==
    IF ~canvas THEN <<>>
    ELSE IF Len(hist) < 1 THEN Background \o Grid
    ELSE Background \o Grid
            \o drawAxis(hist, "#00c73cff", "throttle")
            \o drawAxis(hist, "#ef4444", "brake")
            \o drawAxis(hist, "#3b82f6", "steering")

Redraw(hist, canvas) ==
    IF ~canvas THEN <<>>
    ELSE IF Len(hist) < 2 THEN Background \o Grid
    ELSE Background \o Grid
            \o drawAxis(hist, "#00c73cff", "throttle")
            \o drawAxis(hist, "#ef4444", "brake")
            \o drawAxis(hist, "#3b82f6", "steering")

\* the canvas is rendered only while the status is 'connected'
HasCanvas(status) == status = "connected"

\* ---------------------------------------------------------------- effects
\* useEffect(..., [lastUpdate]): the interval is re-created, and pollGamepads
\* captures the render's throttle, brake and lastUpdate, when lastUpdate changed
PollEffectNeverReruns(closure, oldLastUpdate, newLastUpdate, t, b) == closure

PollEffect(closure, oldLastUpdate, newLastUpdate, t, b) ==
    IF newLastUpdate # oldLastUpdate
    THEN [throttle |-> t, brake |-> b, lastUpdate |-> newLastUpdate]
    ELSE closure

\* useEffect(..., [throttle, brake, steering]): the history callback captures
\* the render's throttle, brake and steering when one of them changed
HistoryEffectNeverReruns(closure, old, new) == closure

HistoryEffect(closure, old, new) ==
    IF new # old
    THEN [throttle |-> new[1], brake |-> new[2], steering |-> new[3]]
    ELSE closure

\* ------------------------------------------------------------ pollGamepads
\* setSessionStats(prev => ({...prev, peak...: Math.max(...)}))
PeakStatsNoMax(prev, newThrottle, newBrake, rawSteeringAngle) ==
    [prev EXCEPT !.peakThrottle = newThrottle,
                 !.peakBrake = newBrake,
                 !.peakSteering = Abs(rawSteeringAngle)]

PeakStats(prev, newThrottle, newBrake, rawSteeringAngle) ==
    [prev EXCEPT !.peakThrottle = Max(prev.peakThrottle, newThrottle),
                 !.peakBrake = Max(prev.peakBrake, newBrake),
                 !.peakSteering = Max(prev.peakSteering, Abs(rawSteeringAngle))]

\* Date.now() - lastUpdate > 2000
TimedOutNotStrict(t, capturedLastUpdate) == t - capturedLastUpdate >= TimeoutMs

TimedOutSwapped(t, capturedLastUpdate) == capturedLastUpdate - t > TimeoutMs

TimedOut(t, capturedLastUpdate) == t - capturedLastUpdate > TimeoutMs

\* what the state is left unchanged at
Kept ==
    [throttle |-> throttle, brake |-> brake, steering |-> steering,
     steeringAngle |-> steeringAngle, sessionStats |-> sessionStats,
     lastUpdate |-> lastUpdate, connectionStatus |-> connectionStatus,
     stored |-> FALSE]

\* the matched path: the body of the loop for the slot it breaks at
MatchedPathDebounced(gamepad, t) ==
    LET throttleAxis == AxisOrDefault(gamepad.axes, 1, -AxisDen)
        brakeAxis == AxisOrDefault(gamepad.axes, 2, -AxisDen)
        steeringAxis == AxisOrDefault(gamepad.axes, 0, 0)
        newThrottle == NewPedal(throttleAxis, pollClosure.throttle)
        newBrake == NewPedal(brakeAxis, pollClosure.brake)
        rawSteeringAngle == RawSteeringAngle(steeringAxis)
        newSteering == NewSteering(steeringAxis)
    IN  [throttle |-> newThrottle, brake |-> newBrake, steering |-> newSteering,
         steeringAngle |-> rawSteeringAngle,
         sessionStats |-> PeakStats(sessionStats, newThrottle, newBrake,
                                    rawSteeringAngle),
         lastUpdate |-> t,
         connectionStatus |-> IF connectionStatus = "no-device"
                              THEN "no-device" ELSE "connected",
         stored |-> TRUE]

MatchedPath(gamepad, t) ==
    LET throttleAxis == AxisOrDefault(gamepad.axes, 1, -AxisDen)
        brakeAxis == AxisOrDefault(gamepad.axes, 2, -AxisDen)
        steeringAxis == AxisOrDefault(gamepad.axes, 0, 0)
        newThrottle == NewPedal(throttleAxis, pollClosure.throttle)
        newBrake == NewPedal(brakeAxis, pollClosure.brake)
        rawSteeringAngle == RawSteeringAngle(steeringAxis)
        newSteering == NewSteering(steeringAxis)
    IN  [throttle |-> newThrottle, brake |-> newBrake, steering |-> newSteering,
         steeringAngle |-> rawSteeringAngle,
         sessionStats |-> PeakStats(sessionStats, newThrottle, newBrake,
                                    rawSteeringAngle),
         lastUpdate |-> t, connectionStatus |-> "connected", stored |-> TRUE]

\* the fallback path: no match, some slot is not null
GenericPathTimesOut(gamepad, t) ==
    IF Len(gamepad.axes) >= 2
    THEN LET tAxis == AxisOr(gamepad.axes, 1, -AxisDen)
             bAxis == AxisOr(gamepad.axes, 2, AxisOr(gamepad.axes, 0, 0))
             cAxis == AxisOr(gamepad.axes, 0, 0)
         IN  [Kept EXCEPT !.throttle = GenericPct(tAxis),
                          !.brake = GenericPct(bAxis),
                          !.steering = GenericPct(cAxis),
                          !.steeringAngle = cAxis * 2 * LockDeg,
                          !.lastUpdate = t,
                          !.connectionStatus = "connected-generic",
                          !.stored = TRUE]
    ELSE IF TimedOut(t, pollClosure.lastUpdate)
         THEN [Kept EXCEPT !.connectionStatus = "no-device"]
         ELSE Kept

GenericPathNoAxisTest(gamepad, t) ==
    LET tAxis == AxisOr(gamepad.axes, 1, -AxisDen)
        bAxis == AxisOr(gamepad.axes, 2, AxisOr(gamepad.axes, 0, 0))
        cAxis == AxisOr(gamepad.axes, 0, 0)
    IN  [Kept EXCEPT !.throttle = GenericPct(tAxis),
                     !.brake = GenericPct(bAxis),
                     !.steering = GenericPct(cAxis),
                     !.steeringAngle = cAxis * 2 * LockDeg,
                     !.lastUpdate = t,
                     !.connectionStatus = "connected-generic",
                     !.stored = TRUE]

GenericPath(gamepad, t) ==
    IF Len(gamepad.axes) >= 2
    THEN LET tAxis == AxisOr(gamepad.axes, 1, -AxisDen)
             bAxis == AxisOr(gamepad.axes, 2, AxisOr(gamepad.axes, 0, 0))
             cAxis == AxisOr(gamepad.axes, 0, 0)
         IN  [Kept EXCEPT !.throttle = GenericPct(tAxis),
                          !.brake = GenericPct(bAxis),
                          !.steering = GenericPct(cAxis),
                          !.steeringAngle = cAxis * 2 * LockDeg,
                          !.lastUpdate = t,
                          !.connectionStatus = "connected-generic",
                          !.stored = TRUE]
    ELSE Kept

\* the timeout branch: every slot is null
TimeoutPathSearching(t) ==
    IF TimedOut(t, pollClosure.lastUpdate)
    THEN [Kept EXCEPT !.connectionStatus = "no-device"]
    ELSE [Kept EXCEPT !.connectionStatus = "polling"]

TimeoutPathResets(t) ==
    IF TimedOut(t, pollClosure.lastUpdate)
    THEN [Kept EXCEPT !.connectionStatus = "no-device", !.throttle = 0,
                      !.brake = 0, !.steering = Pct(50), !.steeringAngle = 0]
    ELSE Kept

TimeoutPath(t) ==
    IF TimedOut(t, pollClosure.lastUpdate)
    THEN [Kept EXCEPT !.connectionStatus = "no-device"]
    ELSE Kept

\* the state updates one call of pollGamepads at time t queues
pollGamepads(gps, t) ==
    IF FirstMatch(gps) # 0 THEN MatchedPath(gps[FirstMatch(gps)], t)
    ELSE IF SomeNonNull(gps) THEN GenericPath(FindNonNull(gps), t)
    ELSE TimeoutPath(t)

\* ---------------------------------------------------------------- handlers
\* The sample trigger: the poll interval fires dt ms after the latest handler.
Sample(gps, dt) ==
    \E t \in {now + dt} : \E r \in {pollGamepads(gps, t)} :
    \E e \in {CommitEffects(timers, pollInterval, historyInterval,
                            r.lastUpdate # lastUpdate,
                            <<r.throttle, r.brake, r.steering>>
                                # <<throttle, brake, steering>>)} :
        /\ Live(timers, "poll")
        /\ now' = t
        /\ timers' = e.timers
        /\ pollInterval' = e.pollInterval
        /\ historyInterval' = e.historyInterval
        /\ historyArmed' = Armed(historyArmed, dt,
                                 <<r.throttle, r.brake, r.steering>>
                                    # <<throttle, brake, steering>>)
        /\ drawn' = <<>>
        /\ throttle' = r.throttle
        /\ brake' = r.brake
        /\ steering' = r.steering
        /\ steeringAngle' = r.steeringAngle
        /\ sessionStats' = r.sessionStats
        /\ lastUpdate' = r.lastUpdate
        /\ connectionStatus' = r.connectionStatus
        /\ pollClosure' = PollEffect(pollClosure, lastUpdate, r.lastUpdate,
                                     r.throttle, r.brake)
        /\ historyClosure' = HistoryEffect(historyClosure,
                                           <<throttle, brake, steering>>,
                                           <<r.throttle, r.brake, r.steering>>)
        /\ gamepads' = gps
        /\ foundSimagic' = (FirstMatch(gps) # 0)
        /\ lastOp' = "sample"
        /\ lastMatch' = IF FirstMatch(gps) # 0 THEN t ELSE lastMatch
        /\ prevMatch' = IF FirstMatch(gps) # 0 THEN lastMatch ELSE prevMatch
        /\ maxThrottleSeen' = IF r.stored THEN Max(maxThrottleSeen, r.throttle)
                              ELSE maxThrottleSeen
        /\ UNCHANGED <<history, log, mounted>>

\* setHistory(prev => ...): append, then shift when over maxHistory
HistoryAppendPop(prev, item) ==
    LET newHistory == Append(prev, item)
    IN  IF Len(newHistory) > maxHistory
        THEN SubSeq(newHistory, 1, Len(newHistory) - 1)
        ELSE newHistory

HistoryAppendNoShift(prev, item) == Append(prev, item)

HistoryAppend(prev, item) ==
    LET newHistory == Append(prev, item)
    IN  IF Len(newHistory) > maxHistory THEN Tail(newHistory) ELSE newHistory

\* The history trigger: the history interval fires.
HistoryTickSetsStatus ==
    /\ Live(timers, "history")
    /\ historyArmed' = TRUE
    /\ history' = HistoryAppend(history, historyClosure)
    /\ connectionStatus' = "connected"
    /\ drawn' = Redraw(history', HasCanvas(connectionStatus'))
    /\ log' = Append(log, historyClosure)
    /\ lastOp' = "history"
    /\ gamepads' = <<>>
    /\ foundSimagic' = FALSE
    /\ UNCHANGED <<throttle, brake, steering, steeringAngle,
                   lastUpdate, sessionStats, pollClosure, historyClosure, now,
                   lastMatch, prevMatch, maxThrottleSeen, mounted, timers,
                   pollInterval, historyInterval>>

HistoryTick ==
    /\ Live(timers, "history")
    /\ historyArmed' = TRUE
    /\ history' = HistoryAppend(history, historyClosure)
    /\ drawn' = Redraw(history', HasCanvas(connectionStatus))
    /\ log' = Append(log, historyClosure)
    /\ lastOp' = "history"
    /\ gamepads' = <<>>
    /\ foundSimagic' = FALSE
    /\ UNCHANGED <<throttle, brake, steering, steeringAngle, connectionStatus,
                   lastUpdate, sessionStats, pollClosure, historyClosure, now,
                   lastMatch, prevMatch, maxThrottleSeen, mounted, timers,
                   pollInterval, historyInterval>>

\* refresh(), dt ms after the latest handler
RefreshResultClears(t) ==
    [connectionStatus |-> "polling", lastUpdate |-> t, history |-> <<>>,
     sessionStats |-> [sessionStats EXCEPT !.peakThrottle = 0, !.peakBrake = 0,
                                            !.peakSteering = 0]]

RefreshResultSearching(t) ==
    [connectionStatus |-> "searching", lastUpdate |-> t, history |-> history,
     sessionStats |-> sessionStats]

RefreshResult(t) ==
    [connectionStatus |-> "polling", lastUpdate |-> t, history |-> history,
     sessionStats |-> sessionStats]

Refresh(dt) ==
    \E t \in {now + dt} : \E r \in {RefreshResult(t)} :
    \E e \in {CommitEffects(timers, pollInterval, historyInterval,
                            r.lastUpdate # lastUpdate, FALSE)} :
        /\ mounted
        /\ now' = t
        /\ timers' = e.timers
        /\ pollInterval' = e.pollInterval
        /\ historyInterval' = e.historyInterval
        /\ historyArmed' = Armed(historyArmed, dt, FALSE)
        /\ drawn' = Redraw(r.history, r.history # history /\ HasCanvas(r.connectionStatus))
        /\ connectionStatus' = r.connectionStatus
        /\ lastUpdate' = r.lastUpdate
        /\ history' = r.history
        /\ sessionStats' = r.sessionStats
        /\ pollClosure' = PollEffect(pollClosure, lastUpdate, r.lastUpdate,
                                     throttle, brake)
        /\ lastOp' = "refresh"
        /\ gamepads' = <<>>
        /\ foundSimagic' = FALSE
        /\ UNCHANGED <<throttle, brake, steering, steeringAngle, historyClosure,
                       log, lastMatch, prevMatch, maxThrottleSeen, mounted>>

\* React.StrictMode, development build: right after the mount React runs the
\* cleanup of every effect and then every effect again; state and refs stay.
StrictRemount ==
    \E e \in {CommitEffects(timers, pollInterval, historyInterval, TRUE, TRUE)} :
        /\ mounted
        /\ lastOp = "mount"
        /\ timers' = e.timers
        /\ pollInterval' = e.pollInterval
        /\ historyInterval' = e.historyInterval
        /\ pollClosure' = [throttle |-> throttle, brake |-> brake,
                           lastUpdate |-> lastUpdate]
        /\ historyClosure' = [throttle |-> throttle, brake |-> brake,
                              steering |-> steering]
        /\ historyArmed' = TRUE
        /\ drawn' = Redraw(history, HasCanvas(connectionStatus))
        /\ lastOp' = "remount"
        /\ UNCHANGED <<throttle, brake, steering, steeringAngle, history,
                       connectionStatus, lastUpdate, sessionStats, now, gamepads,
                       foundSimagic, log, lastMatch, prevMatch, maxThrottleSeen,
                       mounted>>

\* The teardown: the component unmounts and React runs the cleanup of the
\* poll effect and of the history effect.
Unmount ==
    /\ mounted
    /\ mounted' = FALSE
    /\ timers' = Cleanup(Cleanup(timers, pollInterval), historyInterval)
    /\ historyArmed' = FALSE
    /\ drawn' = <<>>
    /\ lastOp' = "unmount"
    /\ gamepads' = <<>>
    /\ foundSimagic' = FALSE
    /\ UNCHANGED <<throttle, brake, steering, steeringAngle, history,
                   connectionStatus, lastUpdate, sessionStats, pollClosure,
                   historyClosure, now, log, lastMatch, prevMatch,
                   maxThrottleSeen, pollInterval, historyInterval>>

\* ----------------------------------------------------------------- inputs
\* Gaps between handlers (ms).  An interval of PollMs fires no earlier than
\* PollMs after it was created or fired last.
HalfTimeout == TimeoutMs \div 2

\* around half the timeout, so that two gaps add up to 1999, 2000 and 2001
Delays == {d \in {HalfTimeout - 1, HalfTimeout, HalfTimeout + 1} : d >= PollMs}

\* a refresh comes right after the latest handler, or half a timeout later
RefreshDelays == {0, HalfTimeout}

\* branded pedal sets with steering, throttle and brake axes
FullPads ==
    {Pad(IdSimagicP2000, <<s, t, b>>) :
        s \in {-AxisDen, 0, 1}, t \in AxisVals, b \in {-AxisDen, 0, AxisDen}}

\* matches with missing axes, with the brand in upper case, and by axis count
OtherMatches ==
    {Pad(IdSimagicP2000, <<>>), Pad(IdSimagicP2000, <<AxisDen>>),
     Pad(IdSimagicP2000, <<1, AxisDen>>), Pad(IdUpperP1000, <<0, 0>>),
     Pad(IdGeneric, <<0, AxisDen, -AxisDen, 0>>),
     Pad(IdMouse, <<-AxisDen, 1, AxisDen>>)}

\* sources that match nothing
Unmatched ==
    {Pad(IdMouse, <<c, t>>) : c \in AxisVals, t \in {-AxisDen, 0, 1}}
        \cup {Pad(IdMouse, <<>>), Pad(IdMouse, <<AxisDen>>),
              Pad(IdGeneric, <<1, 1>>)}

Pads == FullPads \cup OtherMatches \cup Unmatched

\* what navigator.getGamepads() may return to a sample
Enumerations ==
    {<<>>, <<Null>>}
        \cup {<<p>> : p \in Pads}
        \cup {<<Null, Pad(IdMouse, <<0, 0>>)>>,
              <<Null, Pad(IdSimagicP2000, <<1, AxisDen>>)>>,
              <<Pad(IdMouse, <<0, AxisDen>>), Pad(IdSimagicP2000, <<0, 0, 0>>)>>,
              <<Pad(IdSimagicP2000, <<0, AxisDen, 0>>),
                Pad(IdGeneric, <<AxisDen, 0, AxisDen, 0>>)>>,
              <<Pad(IdMouse, <<AxisDen>>), Null, Pad(IdMouse, <<0, AxisDen>>)>>}

\* the enumerations the clock is explored with
ClockEnumerations ==
    {<<>>, <<Null>>, <<Pad(IdSimagicP2000, <<0, AxisDen, 0>>)>>,
     <<Pad(IdMouse, <<0, AxisDen>>)>>, <<Null, Pad(IdMouse, <<AxisDen>>)>>}

\* the enumerations the history buffer is explored with
HistEnumerations ==
    {<<>>, <<Pad(IdSimagicP2000, <<AxisDen, AxisDen, 0>>)>>}

\* the enumerations the 16 ms grid is explored with
LiveEnumerations ==
    {<<>>, <<Pad(IdSimagicP2000, <<0, AxisDen, 0>>)>>,
     <<Pad(IdSimagicP2000, <<0, -AxisDen, 0>>)>>}

\* --------------------------------------------------------- specifications
\* The signal: every enumeration, handlers half a timeout apart.
Next ==
    \/ \E gps \in Enumerations :
            now + HalfTimeout <= MaxTime /\ Sample(gps, HalfTimeout)
    \/ Len(log) < MaxAppends /\ HistoryTick
    \/ \E dt \in RefreshDelays : now + dt <= MaxTime /\ Refresh(dt)

Spec == Init /\ [][Next]_vars

\* The clock: few enumerations, every gap.
NextTime ==
    \/ \E gps \in ClockEnumerations, dt \in Delays :
            now + dt <= MaxClock /\ Sample(gps, dt)
    \/ Len(log) < MaxAppends /\ HistoryTick
    \/ \E dt \in RefreshDelays : now + dt <= MaxClock /\ Refresh(dt)
    \/ StrictRemount
    \/ Unmount

SpecTime == Init /\ [][NextTime]_vars

\* The poll interval keeps firing while it is live.
SampleTime ==
    \E gps \in ClockEnumerations, dt \in Delays :
        now + dt <= MaxClock /\ Sample(gps, dt)

SpecTimeFair == SpecTime /\ WF_vars(SampleTime)

\* The history buffer past its capacity: many appends, few samples.
NextHist ==
    \/ \E gps \in HistEnumerations :
            now + HalfTimeout <= MaxHistTime /\ Sample(gps, HalfTimeout)
    \/ Len(log) < MaxHistAppends /\ HistoryTick
    \/ now + HalfTimeout <= MaxHistTime /\ Refresh(HalfTimeout)

SpecHist == Init /\ [][NextHist]_vars

\* The two intervals on their 16 ms grid.  The poll interval is created
\* before the history interval in every commit that creates both, so of two
\* intervals due at the same time it fires first; the history interval fires
\* when it is due, before the clock moves on.
PollDue(gps) ==
    /\ historyArmed
    /\ now + PollMs <= MaxLiveTime
    /\ Sample(gps, PollMs)

HistoryDue == ~historyArmed /\ HistoryTick

NextLive ==
    \/ \E gps \in LiveEnumerations : PollDue(gps)
    \/ HistoryDue
    \/ Unmount

\* both intervals fire when they are due
TimersFire == (\E gps \in LiveEnumerations : PollDue(gps)) \/ HistoryDue

SpecLive == Init /\ [][NextLive]_vars /\ WF_vars(TimersFire)

\* ----------------------------------------------------------------- claims
\* the last n elements of s, all of s when it has fewer
LastN(s, n) == SubSeq(s, Max(1, Len(s) - n + 1), Len(s))

\* C1: in every reachable state, after any interleaving of samples, history
\* appends and refreshes, the history buffer holds at most 200 entries.
C1_HistoryAtMostCapacity == Len(history) <= maxHistory

\* C1 witness: the buffer is full after more appends than its capacity, with
\* a sample and a refresh taken on the way.
C1_Witness ==
    /\ Len(log) > maxHistory
    /\ Len(history) = maxHistory
    /\ lastMatch >= 0
    /\ connectionStatus = "polling"

\* C2: the buffer is a FIFO sliding window: after n appends it is the last
\* min(n, 200) appended snapshots in append order, and after 201 appends its
\* first element is the snapshot appended second.
C2_SlidingWindow ==
    /\ history = LastN(log, maxHistory)
    /\ Len(log) = maxHistory + 1 => history[1] = log[2]

\* C2 witness: 201 appends, the first two of different snapshots, and the
\* buffer starts with the second.
C2_Witness ==
    /\ Len(log) = maxHistory + 1
    /\ log[1] # log[2]
    /\ history[1] = log[2]
    /\ history[maxHistory] = log[maxHistory + 1]

\* C3: the status becomes no-device only at a sample, and while it is
\* no-device after a match, at least 2000 ms have passed since that match: so
\* between two matches less than 2000 ms apart it is never no-device.
C3_NoDeviceOnlyAfterTimeout ==
    [][/\ (connectionStatus' = "no-device" /\ connectionStatus # "no-device")
            => lastOp' = "sample"
       /\ (connectionStatus' = "no-device" /\ lastMatch' >= 0)
            => now' - lastMatch' >= TimeoutMs]_vars

\* C3 witness: a match 1999 ms after the match before it, the handlers in
\* between having matched nothing, and the status is connected.
C3_Witness ==
    /\ lastOp = "sample"
    /\ foundSimagic
    /\ prevMatch >= 0
    /\ now - prevMatch = TimeoutMs - 1
    /\ connectionStatus = "connected"

\* C4 as claimed: once a match existed and none was found for more than
\* 2000 ms, a sample that finds no match sets no-device, whatever unmatched
\* sources it sees.
C4_Original ==
    [][(/\ lastOp' = "sample"
        /\ ~foundSimagic'
        /\ lastMatch >= 0
        /\ now' - lastMatch > TimeoutMs)
            => connectionStatus' = "no-device"]_vars

\* C4 as amended: more than 2000 ms after the last-update timestamp (the
\* latest matched or fallback sample or refresh), a sample that sees no
\* non-empty source sets no-device.
C4_NoSourcePastTimeout ==
    [][(/\ lastOp' = "sample"
        /\ \A i \in 1..Len(gamepads') : gamepads'[i].null
        /\ now' - lastUpdate > TimeoutMs)
            => connectionStatus' = "no-device"]_vars

\* C4 witness: a sample without sources has set no-device after an earlier match.
C4_Witness ==
    /\ lastOp = "sample"
    /\ \A i \in 1..Len(gamepads) : gamepads[i].null
    /\ lastMatch >= 0
    /\ now - lastUpdate > TimeoutMs
    /\ connectionStatus = "no-device"

\* C5: no step lowers peakThrottle, peakBrake or peakSteering, and no step
\* changes startTime.
C5_PeaksNeverDecrease ==
    [][/\ sessionStats'.peakThrottle >= sessionStats.peakThrottle
       /\ sessionStats'.peakBrake >= sessionStats.peakBrake
       /\ sessionStats'.peakSteering >= sessionStats.peakSteering
       /\ sessionStats'.startTime = sessionStats.startTime]_vars

\* C5 witness: a matched sample stored a throttle, a brake and an angle below
\* the peaks, which it kept.
C5_Witness ==
    /\ lastOp = "sample"
    /\ foundSimagic
    /\ sessionStats.peakThrottle > throttle
    /\ sessionStats.peakBrake > brake
    /\ sessionStats.peakSteering > Abs(steeringAngle)

\* C6 as claimed: peakThrottle is the largest throttle any sample stored
\* since session start, fallback samples included.
C6_PeakIsMaxStored == sessionStats.peakThrottle = maxThrottleSeen

\* C7: a refresh sets the status to polling and lastUpdate to the time of the
\* refresh, and changes neither the history, the session stats nor the signal.
C7_RefreshFrame ==
    [][lastOp' = "refresh"
        => /\ connectionStatus' = "polling"
           /\ lastUpdate' = now'
           /\ history' = history
           /\ sessionStats' = sessionStats
           /\ signal' = signal]_vars

\* C7 witness: a refresh with history buffered, peaks recorded and a signal set.
C7_Witness ==
    /\ lastOp = "refresh"
    /\ connectionStatus = "polling"
    /\ lastUpdate = now
    /\ now > lastMatch
    /\ history # <<>>
    /\ sessionStats.peakThrottle > 0
    /\ throttle > 0

\* the source a matched sample read, and whether it has axis i (JavaScript index)
MatchedSource(gps) == gps[FirstMatch(gps)]
HasAxis(g, i) == Len(g.axes) >= i + 1

\* stored (a numerator over Den) is ((k / AxisDen + 1) / 2) * 100 and in [0, 100]
IsNormalized(stored, k) ==
    /\ stored * 2 * AxisDen = (k + AxisDen) * 100 * Den
    /\ 0 <= stored
    /\ stored <= Pct(100)

\* C8: on the matched path a throttle (brake) axis value a, unless a = 0 and
\* the stored percent is 0, is stored as ((a + 1) / 2) * 100, within [0, 100].
C8_MatchedNormalize ==
    [][(lastOp' = "sample" /\ foundSimagic')
        => /\ (/\ HasAxis(MatchedSource(gamepads'), 1)
               /\ ~(MatchedSource(gamepads').axes[2] = 0 /\ throttle = 0))
                => IsNormalized(throttle', MatchedSource(gamepads').axes[2])
           /\ (/\ HasAxis(MatchedSource(gamepads'), 2)
               /\ ~(MatchedSource(gamepads').axes[3] = 0 /\ brake = 0))
                => IsNormalized(brake', MatchedSource(gamepads').axes[3])]_vars

\* C8 witness: both pedal axes read 0 with non-zero percents stored, and the
\* sample stored 50 for both.
C8_Witness ==
    /\ lastOp = "sample"
    /\ foundSimagic
    /\ HasAxis(MatchedSource(gamepads), 2)
    /\ MatchedSource(gamepads).axes[2] = 0
    /\ MatchedSource(gamepads).axes[3] = 0
    /\ throttle = Pct(50)
    /\ brake = Pct(50)

\* C9: on the matched path, a throttle (brake) axis that reads exactly 0 while
\* the stored percent is 0 leaves the stored percent 0.
C9_ZeroDebounce ==
    [][(lastOp' = "sample" /\ foundSimagic')
        => /\ (/\ HasAxis(MatchedSource(gamepads'), 1)
               /\ MatchedSource(gamepads').axes[2] = 0
               /\ throttle = 0) => throttle' = 0
           /\ (/\ HasAxis(MatchedSource(gamepads'), 2)
               /\ MatchedSource(gamepads').axes[3] = 0
               /\ brake = 0) => brake' = 0]_vars

\* C9 witness: after an earlier matched sample that left both percents 0,
\* both pedal axes read 0 and both percents are still 0.
C9_Witness ==
    /\ lastOp = "sample"
    /\ foundSimagic
    /\ prevMatch >= 0
    /\ HasAxis(MatchedSource(gamepads), 2)
    /\ MatchedSource(gamepads).axes[2] = 0
    /\ MatchedSource(gamepads).axes[3] = 0
    /\ throttle = 0
    /\ brake = 0

\* c and d are the same character up to case
SameLetter(c, d) ==
    \/ c = d
    \/ \E i \in 1..26 : {c, d} = {UpperChars[i], LowerChars[i]}

\* id contains tok, compared character by character up to case
ContainsIgnoringCase(id, tok) ==
    \E i \in 0..(Len(id) - Len(tok)) :
        \A j \in 1..Len(tok) : SameLetter(id[i + j], tok[j])

\* the identifiers of Ids that contain simagic, p1000 or p2000 up to case
ClaimedIds ==
    {id \in Ids : \E tok \in {TokSimagic, TokP1000, TokP2000} :
                        ContainsIgnoringCase(id, tok)}

ClaimedMatch(g) == ~g.null /\ (g.id \in ClaimedIds \/ Len(g.axes) >= 3)

\* C10: a sample finds a match exactly when some non-empty source has an
\* identifier containing simagic, p1000 or p2000 up to case, or at least 3
\* axes; "Simagic P2000" matches, "Generic USB Gamepad" with 4 axes matches,
\* "Mouse" with 2 axes does not.
C10_MatchHeuristic ==
    lastOp = "sample"
        => /\ foundSimagic = (\E i \in 1..Len(gamepads) : ClaimedMatch(gamepads[i]))
           /\ \A i \in 1..Len(gamepads) :
                (Len(gamepads) = 1 /\ ~gamepads[i].null)
                    => /\ gamepads[i].id = IdSimagicP2000 => foundSimagic
                       /\ (gamepads[i].id = IdGeneric /\ Len(gamepads[i].axes) = 4)
                            => foundSimagic
                       /\ (gamepads[i].id = IdMouse /\ Len(gamepads[i].axes) = 2)
                            => ~foundSimagic

\* C10 witness: "Simagic P2000" with 2 axes was sampled and matched.
C10_Witness ==
    /\ lastOp = "sample"
    /\ gamepads = <<Pad(IdSimagicP2000, <<1, AxisDen>>)>>
    /\ foundSimagic
    /\ connectionStatus = "connected"

\* index of the first source that matches as claimed
ClaimedFirst(gps) ==
    CHOOSE i \in 1..Len(gps) :
        ClaimedMatch(gps[i]) /\ \A j \in 1..(i - 1) : ~ClaimedMatch(gps[j])

\* C11: a sample that finds a match leaves the signal, the stats, the status
\* and lastUpdate exactly as a sample of the first matching source alone
\* would: empty slots and sources before it are skipped, later ones ignored.
C11_FirstMatchWins ==
    [][(lastOp' = "sample" /\ foundSimagic')
        => /\ signal' =
                <<pollGamepads(<<gamepads'[ClaimedFirst(gamepads')]>>, now').throttle,
                  pollGamepads(<<gamepads'[ClaimedFirst(gamepads')]>>, now').brake,
                  pollGamepads(<<gamepads'[ClaimedFirst(gamepads')]>>, now').steering,
                  pollGamepads(<<gamepads'[ClaimedFirst(gamepads')]>>, now').steeringAngle>>
           /\ sessionStats' =
                pollGamepads(<<gamepads'[ClaimedFirst(gamepads')]>>, now').sessionStats
           /\ connectionStatus' = "connected"
           /\ lastUpdate' = now']_vars

\* C11 witness: two matching sources were sampled, and the signal is the
\* first one's (throttle 100 %, steering 0), not the second one's.
C11_Witness ==
    /\ lastOp = "sample"
    /\ Len(gamepads) = 2
    /\ ClaimedMatch(gamepads[1])
    /\ ClaimedMatch(gamepads[2])
    /\ gamepads[1].axes # gamepads[2].axes
    /\ throttle = Pct(100)
    /\ steering = 0

\* C12 as claimed: a sample that finds no match but sees a non-empty source
\* sets the status to connected-generic.
C12_Original ==
    [][(/\ lastOp' = "sample"
        /\ ~foundSimagic'
        /\ \E i \in 1..Len(gamepads') : ~gamepads'[i].null)
            => connectionStatus' = "connected-generic"]_vars

C14_SignalInRange ==
    /\ 0 <= throttle /\ throttle <= Pct(100)
    /\ 0 <= brake /\ brake <= Pct(100)
    /\ 0 <= steering /\ steering <= Pct(100)
    /\ -(LockDeg * Den) <= steeringAngle /\ steeringAngle <= LockDeg * Den

\* C14 witness: the fallback path read a source behind an empty slot and
\* stored the extreme throttle 100 %.
C14_Witness ==
    /\ lastOp = "sample"
    /\ connectionStatus = "connected-generic"
    /\ Len(gamepads) = 2
    /\ gamepads[1].null
    /\ throttle = Pct(100)

\* the steering axis a matched sample uses: axis 0, or 0 when it is missing
ClaimedSteeringAxis(g) == IF HasAxis(g, 0) THEN g.axes[1] ELSE 0

\* C17 as claimed: steeringPercent * 4.5 = |steeringAngleDegrees| in every
\* reachable state.
C17_Original == steering * 9 = Abs(steeringAngle) * 2

\* C17 as amended: after a sample on the matched path with steering axis a,
\* steeringPercent = |a| * 100 and steeringAngleDegrees = a * 450, so
\* steeringPercent * 4.5 = |steeringAngleDegrees|.
C17_MatchedSteering ==
    [][(lastOp' = "sample" /\ foundSimagic')
        => /\ steering' * AxisDen
                = Abs(ClaimedSteeringAxis(MatchedSource(gamepads'))) * 100 * Den
           /\ steeringAngle' * AxisDen
                = ClaimedSteeringAxis(MatchedSource(gamepads')) * LockDeg * Den
           /\ steering' * 9 = Abs(steeringAngle') * 2]_vars

\* C17 witness: a matched sample with the steering axis at -1 stored 100 %
\* and -450 degrees.
C17_Witness ==
    /\ lastOp = "sample"
    /\ foundSimagic
    /\ ClaimedSteeringAxis(MatchedSource(gamepads)) = -AxisDen
    /\ steering = Pct(100)
    /\ steeringAngle = -(LockDeg * Den)

\* the axis the fallback path reads the brake from: axis 2, or axis 0 when
\* the source has no axis 2
ClaimedBrakeAxis(g) == IF HasAxis(g, 2) THEN g.axes[3] ELSE g.axes[1]

\* C18 as claimed: a fallback sample stores ((1 - a) / 2) * 100 for the
\* throttle axis a (axis 1), the value 0 included, and likewise for the axes
\* the brake (axis 2 or axis 0) and the steering (axis 0) are read from.
C18_Original ==
    [][(lastOp' = "sample" /\ ~foundSimagic'
            /\ connectionStatus' = "connected-generic")
        => /\ throttle' = (AxisDen - FindNonNull(gamepads').axes[2]) * 100
           /\ brake' = (AxisDen - ClaimedBrakeAxis(FindNonNull(gamepads'))) * 100
           /\ steering' = (AxisDen - FindNonNull(gamepads').axes[1]) * 100]_vars

\* C19: a matched sample with missing axes still ends connected: a missing
\* throttle or brake axis gives 0 %, a missing steering axis 0 % and 0 degrees.
C19_MissingAxes ==
    [][(lastOp' = "sample" /\ foundSimagic')
        => /\ connectionStatus' = "connected"
           /\ ~HasAxis(MatchedSource(gamepads'), 1) => throttle' = 0
           /\ ~HasAxis(MatchedSource(gamepads'), 2) => brake' = 0
           /\ ~HasAxis(MatchedSource(gamepads'), 0)
                => (steering' = 0 /\ steeringAngle' = 0)]_vars

\* C19 witness: after a matched sample that recorded non-zero peaks, a
\* matching source without any axis was sampled and everything reads 0.
C19_Witness ==
    /\ lastOp = "sample"
    /\ foundSimagic
    /\ MatchedSource(gamepads).axes = <<>>
    /\ sessionStats.peakThrottle > 0
    /\ sessionStats.peakSteering > 0
    /\ signal = <<0, 0, 0, 0>>
    /\ connectionStatus = "connected"

\* the styles of the background fill and of the gridlines
GridStyles == {"#0a0a0a", "#2a2a2a"}

\* C15: with 0 or 1 buffered samples the redraw issues only the background
\* fill and the gridline strokes: no call carries a series colour and none
\* was computed from a buffer entry.
C15_GridOnly ==
    Len(history) < 2
        => \A k \in 1..Len(drawn) :
                /\ drawn[k].style \in GridStyles
                /\ drawn[k].i = 0

\* C15 witness: the history trigger appended the first sample while the
\* canvas was shown, and the redraw filled the background and stroked lines.
C15_Witness ==
    /\ lastOp = "history"
    /\ Len(history) = 1
    /\ Len(drawn) > 1
    /\ drawn[1].op = "fillRect"
    /\ drawn[Len(drawn)].op = "stroke"

\* C16: once the component is torn down no interval is live and no handler
\* can run (no sample trigger, no history trigger, no refresh), so the
\* status, the signal, the stats and the buffer never change again.
C16_TornDownIsQuiet == ~mounted => (timers = {} /\ ~ENABLED NextTime)

\* C16 witness: the component was torn down while connected, with samples in
\* the buffer, at a time when both triggers could still have fired.
C16_Witness ==
    /\ ~mounted
    /\ lastOp = "unmount"
    /\ connectionStatus = "connected"
    /\ Len(history) = 1
    /\ Len(log) < MaxAppends
    /\ now + HalfTimeout + 1 <= MaxClock

\* Searching, MatchedDevice, FallbackGeneric and NoDevice
FourStates == {"polling", "connected", "connected-generic", "no-device"}

\* C20: the status starts as polling, is always one of the four values, and
\* only a sample or a refresh changes it: the history trigger with its
\* redraw, the remount and the teardown leave it unchanged.
C20_StatusFrame ==
    /\ connectionStatus = "polling"
    /\ [][/\ connectionStatus' \in FourStates
          /\ connectionStatus' # connectionStatus
                => lastOp' \in {"sample", "refresh"}]_vars

\* C20 witness: a history trigger ran with a redraw onto the canvas while
\* the status was connected.
C20_Witness ==
    /\ lastOp = "history"
    /\ drawn # <<>>
    /\ connectionStatus = "connected"
    /\ Len(history) = 2

\* C22: a sample that finds a match sets the status to connected and
\* lastUpdate to the sample time, whatever the status was before.
C22_MatchRecovers ==
    [][(lastOp' = "sample" /\ \E i \in 1..Len(gamepads') : ClaimedMatch(gamepads'[i]))
        => /\ connectionStatus \in FourStates
           /\ connectionStatus' = "connected"
           /\ lastUpdate' = now']_vars

\* C22 witness: the status is no-device, and the sample of a matching source
\* half a timeout later sets connected and that sample's time.
C22_Witness ==
    /\ connectionStatus = "no-device"
    /\ ENABLED (/\ Sample(<<Pad(IdSimagicP2000, <<0, AxisDen, 0>>)>>, HalfTimeout)
                /\ connectionStatus' = "connected"
                /\ lastUpdate' = now + HalfTimeout)

\* no sample later than the timeout after lastUpdate is certain to come
\* before the sample clock stops
ClockTooShort == lastUpdate + TimeoutMs + (HalfTimeout - 1) > MaxClock

\* the sample clock has not stopped: a further sample is certain to come
SampleToCome == now + (HalfTimeout - 1) <= MaxClock

\* the latest step was a sample that saw a non-empty source
SawSource ==
    lastOp = "sample" /\ \E i \in 1..Len(gamepads) : ~gamepads[i].null

\* C23: a sample that sees no non-empty source leaves the status no-device
\* exactly if it comes more than 2000 ms after lastUpdate or the status was
\* no-device already, and a history append keeps the status; and while
\* samples keep coming, none sees a source and no refresh occurs, the status
\* eventually becomes no-device.
C23_QuietEndsNoDevice ==
    /\ [][/\ (lastOp' = "sample" /\ \A i \in 1..Len(gamepads') : gamepads'[i].null)
                => (connectionStatus' = "no-device"
                        <=> (now' - lastUpdate > TimeoutMs
                                \/ connectionStatus = "no-device"))
          /\ lastOp' = "history" => connectionStatus' = connectionStatus]_vars
    /\ []((SampleToCome /\ ~ClockTooShort)
            => <>(\/ connectionStatus = "no-device"
                  \/ SawSource
                  \/ ClockTooShort
                  \/ ~mounted))

\* C23 witness: no-device was set and a later sample without sources has
\* left it, with no match and no refresh in between.
C23_Witness ==
    /\ lastOp = "sample"
    /\ gamepads = <<>>
    /\ connectionStatus = "no-device"
    /\ ~ClockTooShort
    /\ now - lastUpdate > TimeoutMs + HalfTimeout - 1

\* C24: a sample without sources exactly 2000 ms after lastUpdate leaves the
\* status unchanged, and a step that makes the status no-device is a sample
\* more than 2000 ms after lastUpdate.
C24_TimeoutStrict ==
    [][/\ (/\ lastOp' = "sample"
           /\ \A i \in 1..Len(gamepads') : gamepads'[i].null
           /\ now' - lastUpdate = TimeoutMs)
                => connectionStatus' = connectionStatus
       /\ (connectionStatus' = "no-device" /\ connectionStatus # "no-device")
                => (lastOp' = "sample" /\ now' - lastUpdate > TimeoutMs)]_vars

\* C24 witness: a sample without sources exactly 2000 ms after lastUpdate,
\* and the status is not no-device.
C24_Witness ==
    /\ lastOp = "sample"
    /\ \A i \in 1..Len(gamepads) : gamepads[i].null
    /\ now - lastUpdate = TimeoutMs
    /\ connectionStatus # "no-device"

\* C25 as claimed: on the matched path, once a sample has stored a non-zero
\* throttle, a throttle axis reading of exactly 0 is stored as 50 %.
C25_Original ==
    [][(/\ lastOp' = "sample"
        /\ foundSimagic'
        /\ HasAxis(MatchedSource(gamepads'), 1)
        /\ MatchedSource(gamepads').axes[2] = 0
        /\ maxThrottleSeen > 0)
            => throttle' = Pct(50)]_vars

\* C25 as amended: on the matched path a throttle (brake) axis reading of
\* exactly 0 is stored as 0 % if the stored percent of that pedal is 0, and
\* as 50 % if it is not.
C25_ZeroByStoredPercent ==
    [][(lastOp' = "sample" /\ foundSimagic')
        => /\ (/\ HasAxis(MatchedSource(gamepads'), 1)
               /\ MatchedSource(gamepads').axes[2] = 0)
                => throttle' = IF throttle = 0 THEN 0 ELSE Pct(50)
           /\ (/\ HasAxis(MatchedSource(gamepads'), 2)
               /\ MatchedSource(gamepads').axes[3] = 0)
                => brake' = IF brake = 0 THEN 0 ELSE Pct(50)]_vars

\* C25 witness: the throttle was at 100 %, went back to 0 %, and a throttle
\* axis reading of exactly 0 was then stored as 0 %.
C25_Witness ==
    /\ lastOp = "sample"
    /\ foundSimagic
    /\ HasAxis(MatchedSource(gamepads), 1)
    /\ MatchedSource(gamepads).axes[2] = 0
    /\ throttle = 0
    /\ sessionStats.peakThrottle = Pct(100)

\* C30: only a refresh makes the status polling: a sample or a history
\* append leaves a status polling only if it was polling before.
C30_SearchingOnlyByRefresh ==
    [][/\ (connectionStatus' = "polling" /\ connectionStatus # "polling")
            => lastOp' = "refresh"
       /\ (lastOp' \in {"sample", "history"} /\ connectionStatus' = "polling")
            => connectionStatus = "polling"]_vars

\* C30 witness: a refresh has set polling after a matched sample had left it.
C30_Witness ==
    /\ lastOp = "refresh"
    /\ connectionStatus = "polling"
    /\ lastMatch >= 0

\* the three series in the claimed order, with their colours
ClaimedSeries ==
    <<[style |-> "#00c73cff", key |-> "throttle"],
      [style |-> "#ef4444", key |-> "brake"],
      [style |-> "#3b82f6", key |-> "steering"]>>

\* is the call part of a series polyline
IsSeriesCall(c) == c.style \notin GridStyles

\* the calls of the series polylines, in the order issued
SeriesCalls == SelectSeq(drawn, IsSeriesCall)

\* C26: a redraw with at least 2 buffered samples draws three polylines, of
\* throttle, brake and steering in this order, each one path that visits
\* every buffer entry from the oldest to the newest.
C26_ThreePolylines ==
    (Len(history) >= 2 /\ drawn # <<>>)
        => /\ Len(SeriesCalls) = 3 * (Len(history) + 2)
           /\ \A n \in 1..3 :
                LET base == (n - 1) * (Len(history) + 2)
                IN  /\ SeriesCalls[base + 1].op = "beginPath"
                    /\ SeriesCalls[base + Len(history) + 2].op = "stroke"
                    /\ \A i \in 1..Len(history) :
                        /\ SeriesCalls[base + 1 + i].style = ClaimedSeries[n].style
                        /\ SeriesCalls[base + 1 + i].i = i
                        /\ SeriesCalls[base + 1 + i].op =
                                IF i = 1 THEN "moveTo" ELSE "lineTo"
                        /\ SeriesCalls[base + 1 + i].y
                                + history[i][ClaimedSeries[n].key] * height
                                    = height * YDen

\* C26 witness: a redraw of two different buffer entries whose throttle and
\* brake differ.
C26_Witness ==
    /\ lastOp = "history"
    /\ drawn # <<>>
    /\ Len(history) = 2
    /\ history[1] # history[2]
    /\ history[2].throttle # history[2].brake

\* C27 as claimed: a redraw strokes exactly 4 gridlines.
C27_Original ==
    drawn # <<>>
        => Cardinality({k \in 1..Len(drawn) :
                            drawn[k].op = "stroke" /\ drawn[k].style = "#2a2a2a"}) = 4

\* the buffer key the series of this colour plots
ClaimedKey(style) ==
    IF style = ClaimedSeries[1].style THEN ClaimedSeries[1].key
    ELSE IF style = ClaimedSeries[2].style THEN ClaimedSeries[2].key
    ELSE ClaimedSeries[3].key

\* C28: the entry with 0-based index i is plotted at x = i * width / 199 and
\* y = height * (1 - value / 100), with x in [0, width] and y in [0, height],
\* 0 % at the bottom edge and 100 % at the top edge.
C28_PlotCoordinates ==
    \A k \in 1..Len(drawn) :
        drawn[k].i > 0
            => LET c == drawn[k]
                   value == history[c.i][ClaimedKey(c.style)]
               IN  /\ c.x * 199 = (c.i - 1) * width * XDen
                   /\ c.y * 100 * Den = height * (100 * Den - value) * YDen
                   /\ 0 <= c.x /\ c.x <= width * XDen
                   /\ 0 <= c.y /\ c.y <= height * YDen
                   /\ value = 0 => c.y = height * YDen
                   /\ value = Pct(100) => c.y = 0

\* C28 witness: a redraw of the full buffer: the newest entry is plotted at
\* x = width, a value of 100 % at y = 0 and a value of 0 % at y = height.
C28_Witness ==
    /\ Len(history) = maxHistory
    /\ \E k \in 1..Len(drawn) : drawn[k].i = maxHistory /\ drawn[k].x = width * XDen
    /\ \E k \in 1..Len(drawn) : drawn[k].i > 0 /\ drawn[k].y = 0
    /\ \E k \in 1..Len(drawn) : drawn[k].i > 0 /\ drawn[k].y = height * YDen

\* C29 as claimed: every change of the buffer comes with a redraw, whatever
\* the status is.
C29_Original ==
    [][history' # history
        => (Len(drawn') > 0 /\ drawn'[1].op = "fillRect")]_vars

\* a further sample is certain to come before the sample clock of
\* SpecLive stops
LiveSampleToCome == now + PollMs <= MaxLiveTime

LiveOf(kind) == {tm \in timers : tm.kind = kind}

\* C31: at any time at most one sample timer and at most one history timer
\* is live, and a live timer is the one its ref holds: a re-created timer
\* (after a change of lastUpdate or of the signal, after the double mount)
\* leaves no superseded timer behind whose callback could run.
C31_OneTimerEach ==
    /\ Cardinality(LiveOf("poll")) <= 1
    /\ Cardinality(LiveOf("history")) <= 1
    /\ \A tm \in LiveOf("poll") : tm.id = pollInterval
    /\ \A tm \in LiveOf("history") : tm.id = historyInterval

\* C31 witness: a sample stored a new signal and a new timestamp, so both
\* timers were re-created, and one of each is live.
C31_Witness ==
    /\ lastOp = "sample"
    /\ lastUpdate = now
    /\ throttle > 0
    /\ Cardinality(LiveOf("poll")) = 1
    /\ Cardinality(LiveOf("history")) = 1

\* the enumeration of the latest sample holds no non-empty source
NoSourceSeen(gps) == \A i \in 1..Len(gps) : gps[i].null

\* C32: the status becomes no-device only by a sample whose enumeration
\* holds no non-empty source; a sample that sees a non-empty source does
\* not set no-device, however long ago the last update was.
C32_NoDeviceOnlyWithoutSource ==
    [][/\ (connectionStatus' = "no-device" /\ connectionStatus # "no-device")
            => (lastOp' = "sample" /\ NoSourceSeen(gamepads'))
       /\ (lastOp' = "sample" /\ ~NoSourceSeen(gamepads')
                /\ now' - lastUpdate > TimeoutMs)
            => (connectionStatus' = "no-device"
                    => connectionStatus = "no-device")]_vars

\* C32 witness: a sample saw a source with one axis more than the timeout
\* after the last update, and the status is not no-device.
C32_Witness ==
    /\ lastOp = "sample"
    /\ ~NoSourceSeen(gamepads)
    /\ ~foundSimagic
    /\ now - lastUpdate > TimeoutMs
    /\ connectionStatus # "no-device"

\* the first non-empty source of an enumeration that holds one
FirstSource(gps) ==
    gps[CHOOSE i \in 1..Len(gps) :
            ~gps[i].null /\ \A j \in 1..(i - 1) : gps[j].null]

\* C33: a sample that finds no match while the first non-empty source has
\* fewer than 2 axes changes nothing: the status, the time of the last
\* update, the signal, the session statistics and the history buffer stay
\* as they are.
C33_ShortSourceChangesNothing ==
    [][(/\ lastOp' = "sample"
        /\ ~foundSimagic'
        /\ ~NoSourceSeen(gamepads')
        /\ Len(FirstSource(gamepads').axes) < 2)
            => UNCHANGED <<connectionStatus, lastUpdate, signal, sessionStats,
                           history>>]_vars

\* C33 witness: a sample saw a source with one axis first and a source with
\* two axes after it, while a stored signal and the status of a match were
\* in place.
C33_Witness ==
    /\ lastOp = "sample"
    /\ ~foundSimagic
    /\ Len(gamepads) = 3
    /\ Len(FirstSource(gamepads).axes) = 1
    /\ connectionStatus = "connected"
    /\ throttle > 0
    /\ now - lastUpdate > 0

\* C34: a sample without a match stores a signal only when the first
\* non-empty source has exactly 2 axes, and then the brake and the steering
\* are both ((1 - axis 0) / 2) * 100, so the brake percentage equals the
\* steering percentage after every fallback sample.
C34_FallbackBrakeIsSteering ==
    [][(lastOp' = "sample" /\ ~foundSimagic')
        => /\ (signal' # signal \/ lastUpdate' # lastUpdate)
                => /\ ~NoSourceSeen(gamepads')
                   /\ Len(FirstSource(gamepads').axes) = 2
           /\ (~NoSourceSeen(gamepads') /\ Len(FirstSource(gamepads').axes) = 2)
                => /\ connectionStatus' = "connected-generic"
                   /\ lastUpdate' = now'
                   /\ brake' = (AxisDen - FirstSource(gamepads').axes[1]) * 100
                   /\ steering' = brake']_vars

\* C34 witness: a fallback sample of a source with axes (1, 0) stored a
\* throttle of 100 % and a brake and a steering of 0 %.
C34_Witness ==
    /\ lastOp = "sample"
    /\ ~foundSimagic
    /\ connectionStatus = "connected-generic"
    /\ Len(FirstSource(gamepads).axes) = 2
    /\ throttle = Pct(100)
    /\ brake = 0
    /\ steering = 0

\* C35: a sample that sees no source, the one that sets no-device included,
\* leaves the signal at its last values, and while the component is mounted
\* the history timer is live in every status and its trigger appends the
\* retained values.
C35_SignalRetained ==
    /\ [](mounted => LiveOf("history") # {})
    /\ [][/\ (lastOp' = "sample" /\ NoSourceSeen(gamepads'))
                => signal' = signal
          /\ lastOp' = "history"
                => /\ Len(history') = Len(history) + 1
                   /\ history'[Len(history')].throttle = throttle'
                   /\ history'[Len(history')].brake = brake'
                   /\ history'[Len(history')].steering = steering']_vars

\* C35 witness: after the status turned to no-device with a throttle of
\* 100 % stored, a history trigger appended that throttle.
C35_Witness ==
    /\ lastOp = "history"
    /\ connectionStatus = "no-device"
    /\ throttle = Pct(100)
    /\ history # <<>>
    /\ history[Len(history)].throttle = Pct(100)

\* C36: a history trigger changes the history buffer only: the signal, the
\* session statistics, the status and the time of the last update stay as
\* they are; a sample trigger never changes the history buffer.
C36_TriggersAreSeparate ==
    [][/\ lastOp' = "history"
            => UNCHANGED <<signal, sessionStats, connectionStatus, lastUpdate>>
       /\ lastOp' = "sample" => history' = history]_vars

\* C36 witness: after a history trigger appended an entry, a sample stored
\* another throttle and the buffer still holds that one entry.
C36_Witness ==
    /\ lastOp = "sample"
    /\ foundSimagic
    /\ Len(history) = 1
    /\ Len(log) = 1
    /\ history[1].throttle # throttle

====
